---- MODULE Spec2Model ----
(***************************************************************************)
(* State-machine model of lit_nlp/api/dataset.py: Dataset and its          *)
(* derivations (slice, sample, shuffle, remap), IndexedDataset and         *)
(* NoneDataset.                                                            *)
(*                                                                         *)
(* Python objects live in two heaps.  `lists` holds the list objects that  *)
(* `_examples` attributes refer to (so that aliasing between a dataset and *)
(* its base is visible), `objs` holds the dataset objects.  References are *)
(* positions in these heaps; NoRef stands for a None reference.  An        *)
(* Optional value that is not a reference is None (the empty tuple) or     *)
(* Some(v).                                                                *)
(***************************************************************************)
EXTENDS Integers, Sequences, FiniteSets, TLC

VARIABLES lists, objs, made, last

vars == <<lists, objs, made, last>>

(* ------------------------------ bounds -------------------------------- *)

\* longest example list a root dataset of the derivation model is built with
MaxLen == 2
\* number of dataset objects on the heap of the derivation model
MaxObjs == 2
\* number of successive remap calls in the remap model
MaxRemaps == 2
\* longest example list an IndexedDataset is built from directly
MaxIndexLen == 3
\* number of producers handed to a NoneDataset
MaxModels == 2

(* --------------------------- Python values ---------------------------- *)

None == <<>>
Some(v) == <<v>>
NoRef == 0
EmptyDict == <<>>

\* The examples the models draw from: JsonDicts with two fields.
Records ==
  { [text |-> "x", label |-> "0"],
    [text |-> "x", label |-> "1"],
    [text |-> "y", label |-> "0"] }

\* All lists of Records of length at most n.
ListsUpTo(n) == UNION { [1..k -> Records] : k \in 0..n }

Min(a, b) == IF a < b THEN a ELSE b
Max(a, b) == IF a > b THEN a ELSE b

(* ----------------------- classes and their attributes ------------------ *)

\* Dataset is the class of the file; PathDataset and BareDataset are the
\* subclasses its docstrings speak of: PathDataset overrides
\* clone_with_new_path and sets can_load_by_path, BareDataset has no
\* docstring of its own and overrides nothing.
RootClasses == {"Dataset", "PathDataset", "BareDataset"}

\* inspect.getdoc(self): the docstring of the instance's class, None when the
\* class has none.
getdoc(cls) ==
  CASE cls = "Dataset" -> Some("Base class for LIT datasets.")
    [] cls = "IndexedDataset" -> Some("Dataset with additional indexing information.")
    [] cls = "NoneDataset" -> Some("Empty dataset, with fields as the union of model specs.")
    [] cls = "PathDataset" -> Some("Dataset loaded from a path.")
    [] OTHER -> None

\* Whether the class overrides clone_with_new_path.
overrides_clone_with_new_path(cls) == cls = "PathDataset"

\* The class attribute can_load_by_path.
class_can_load_by_path(cls) == cls = "PathDataset"

\* The class attribute Dataset._examples: one list object shared by every
\* instance that never sets its own.
ClassExamples == 1

\* The class attribute Dataset._spec.
ClassSpec == EmptyDict

\* The class attribute Dataset._description.
ClassDescription == None

(* ------------------------------ Dataset ------------------------------- *)

\* Dataset.examples (property)
Dataset_examples(O, self) == O[self]._examples

\* The value of the list self.examples refers to.
Examples(L, O, self) == L[Dataset_examples(O, self)]

\* Dataset.spec()
Dataset_spec(O, self) == O[self]._spec

\* Dataset.description(): self._description or inspect.getdoc(self) or ''
Dataset_description(O, self) ==
  LET d == O[self]._description
      doc == getdoc(O[self].cls)
  IN IF d # None /\ d[1] # "" THEN d[1]
     ELSE IF doc # None /\ doc[1] # "" THEN doc[1]
     ELSE ""

\* Dataset.__len__
Dataset__len__(L, O, self) == Len(Examples(L, O, self))

\* Truth value of a reference to a Dataset: None is false, and an object that
\* defines __len__ (and no __bool__) is true iff its length is not 0.
Dataset__bool__(L, O, ref) == ref # NoRef /\ Dataset__len__(L, O, ref) # 0

\* Dataset.__init__(spec, examples, description, base) for an instance of cls.
\* spec and description are Optional values, examples a list reference or
\* NoRef, base an object reference or NoRef.
Dataset__init__(L, O, cls, spec, examples, description, base) ==
  LET inherits == base # NoRef
      examples0 == IF inherits THEN Dataset_examples(O, base) ELSE ClassExamples
      spec0 == IF inherits THEN Dataset_spec(O, base) ELSE ClassSpec
      description0 == IF inherits THEN Some(Dataset_description(O, base))
                      ELSE ClassDescription
      can_load0 == IF inherits THEN O[base].can_load_by_path
                   ELSE class_can_load_by_path(cls)
  IN [ cls |-> cls,
       _base |-> base,
       _examples |-> IF examples # NoRef /\ Len(L[examples]) # 0
                     THEN examples ELSE examples0,
       _spec |-> IF spec # None /\ DOMAIN spec[1] # {}
                 THEN spec[1] ELSE spec0,
       _description |-> IF description # None /\ description[1] # ""
                        THEN description ELSE description0,
       can_load_by_path |-> can_load0 ]

\* list[a:b] of Python, step 1: negative bounds count from the end, bounds
\* are clamped to the list.
py_slice(xs, a, b) ==
  LET n == Len(xs)
      lo == IF a < 0 THEN Max(a + n, 0) ELSE Min(a, n)
      hi == IF b < 0 THEN Max(b + n, 0) ELSE Min(b, n)
  IN SubSeq(xs, lo + 1, hi)

\* Dataset.slice[a:b]: the new list heap and the new object.
slice(L, O, self, a, b) ==
  LET L2 == Append(L, py_slice(Examples(L, O, self), a, b))
  IN [ lists |-> L2,
       obj |-> Dataset__init__(L2, O, "Dataset", None, Len(L2), None, self) ]

\* The choices a seeded random.Random can make when asked for k of n items:
\* the sequences of k distinct positions.
Seeds(n, k) == { p \in [1..k -> 1..n] : \A i, j \in 1..k : i # j => p[i] # p[j] }

\* rng.sample(xs, n): a new list of the n items at the positions the seeded
\* generator picks.
rng_sample(xs, n, seed) == [i \in 1..n |-> xs[seed[i]]]

\* sample as it would be with random.shuffle on self.examples when the whole
\* dataset is asked for: the list is reordered in place and shared.
sample_in_place(L, O, self, n, seed) ==
  LET ref == Dataset_examples(O, self)
      xs == L[ref]
      L1 == IF n < Len(xs) THEN L
            ELSE [L EXCEPT ![ref] = [i \in 1..Len(xs) |-> xs[Len(xs) + 1 - i]]]
      examples == IF n < Len(xs) THEN rng_sample(xs, n, seed) ELSE L1[ref]
      L2 == Append(L1, examples)
  IN [ lists |-> L2,
       obj |-> Dataset__init__(L2, O, "Dataset", None, Len(L2), None, self) ]

\* Dataset.sample(n, seed): the new list heap and the new object.
sample(L, O, self, n, seed) ==
  LET xs == Examples(L, O, self)
      examples == IF n < Len(xs) THEN rng_sample(xs, n, seed) ELSE xs
      L2 == Append(L, examples)
  IN [ lists |-> L2,
       obj |-> Dataset__init__(L2, O, "Dataset", None, Len(L2), None, self) ]

\* Dataset.shuffle(seed)
shuffle(L, O, self, seed) == sample(L, O, self, Dataset__len__(L, O, self), seed)

\* The order in which the keys of a dict are visited.
FieldOrder == <<"text", "label", "sentence">>

KeyPos(k) == CHOOSE i \in DOMAIN FieldOrder : FieldOrder[i] = k

\* utils.remap_dict(d, keymap): a copy of d with every key that keymap names
\* renamed to its target and every other key kept; when two keys end on the
\* same name, the one visited last stays.
remap_dict(d, keymap) ==
  LET rename(k) == IF k \in DOMAIN keymap THEN keymap[k] ELSE k
      from(k2) == CHOOSE k \in DOMAIN d :
                    /\ rename(k) = k2
                    /\ \A j \in DOMAIN d : rename(j) = k2 => KeyPos(j) <= KeyPos(k)
  IN [k2 \in { rename(k) : k \in DOMAIN d } |-> d[from(k2)]]

\* remap with the arguments of the schema's remap_dict call swapped.
remap_swapped_args(L, O, self, field_map) ==
  LET new_spec == remap_dict(field_map, Dataset_spec(O, self))
      xs == Examples(L, O, self)
      new_examples == [i \in 1..Len(xs) |-> remap_dict(xs[i], field_map)]
      L2 == Append(L, new_examples)
  IN [ lists |-> L2,
       obj |-> Dataset__init__(L2, O, "Dataset", Some(new_spec), Len(L2), None, self) ]

\* Dataset.remap(field_map): the new list heap and the new object.
remap(L, O, self, field_map) ==
  LET new_spec == remap_dict(Dataset_spec(O, self), field_map)
      xs == Examples(L, O, self)
      new_examples == [i \in 1..Len(xs) |-> remap_dict(xs[i], field_map)]
      L2 == Append(L, new_examples)
  IN [ lists |-> L2,
       obj |-> Dataset__init__(L2, O, "Dataset", Some(new_spec), Len(L2), None, self) ]

\* What an override of clone_with_new_path returns: a new instance of the
\* class, loaded from path.
Loaded(cls, path) == Some([cls |-> cls, path |-> path])

\* Dataset.clone_with_new_path(path), the override of a subclass included.
RECURSIVE clone_with_new_path(_, _, _, _)
clone_with_new_path(L, O, self, path) ==
  IF overrides_clone_with_new_path(O[self].cls) THEN Loaded(O[self].cls, path)
  ELSE IF Dataset__bool__(L, O, O[self]._base)
       THEN clone_with_new_path(L, O, O[self]._base, path)
       ELSE None

(* --------------------------- IndexedDataset --------------------------- *)

\* The identity functions callers pass: "content" is injective (the id is the
\* whole content), "text" keys on the text field alone, "constant" gives every
\* example the same id.
IdFns == {"content", "text", "constant"}

id_fn(f, example) ==
  CASE f = "content" -> example
    [] f = "text" -> [text |-> IF "text" \in DOMAIN example THEN example.text ELSE ""]
    [] OTHER -> [constant |-> "id"]

\* index_inputs stopping one example short.
index_inputs_short(f, examples) ==
  [i \in 1..(Len(examples) - 1) |->
     [data |-> examples[i], id |-> id_fn(f, examples[i]), meta |-> EmptyDict]]

\* IndexedDataset.index_inputs(examples)
index_inputs(f, examples) ==
  [i \in 1..Len(examples) |->
     [data |-> examples[i], id |-> id_fn(f, examples[i]), meta |-> EmptyDict]]

\* d[k] = v on a dict
dict_set(d, k, v) == [x \in DOMAIN d \cup {k} |-> IF x = k THEN v ELSE d[x]]

\* The index as it would be if an id already present were kept
\* (setdefault in place of assignment): the first example of an id stays.
index_dict_first_wins(indexed, i, acc) ==
  LET ids == { indexed[j].id : j \in i..Len(indexed) }
      first(k) == CHOOSE j \in i..Len(indexed) :
                    /\ indexed[j].id = k
                    /\ \A h \in i..Len(indexed) : indexed[h].id = k => j <= h
  IN [k \in DOMAIN acc \cup ids |-> IF k \in DOMAIN acc THEN acc[k] ELSE indexed[first(k)]]

\* {ex['id']: ex for ex in indexed}, from position i on, added to acc
RECURSIVE index_dict(_, _, _)
index_dict(indexed, i, acc) ==
  IF i > Len(indexed) THEN acc
  ELSE index_dict(indexed, i + 1, dict_set(acc, indexed[i].id, indexed[i]))

\* IndexedDataset.__init__(spec, examples, description, base, id_fn=f)
IndexedDataset__init__(L, O, spec, examples, description, base, f) ==
  LET o == Dataset__init__(L, O, "IndexedDataset", spec, examples, description, base)
      indexed == index_inputs(f, L[o._examples])
  IN [ cls |-> o.cls,
       _base |-> o._base,
       _examples |-> o._examples,
       _spec |-> o._spec,
       _description |-> o._description,
       can_load_by_path |-> o.can_load_by_path,
       id_fn |-> f,
       _indexed_examples |-> indexed,
       _index |-> index_dict(indexed, 1, EmptyDict) ]

\* IndexedDataset.index_single(dataset, id_fn)
index_single(L, O, dataset, f) ==
  IndexedDataset__init__(L, O, None, NoRef, None, dataset, f)

(* ------------------- the derivation model: Spec ------------------------ *)

\* The schema root datasets are built with.
S1 == [text |-> "TextSegment", label |-> "CategoryLabel"]

\* The constructor calls that build a root dataset, apart from the examples.
RootProfiles ==
  { [cls |-> "Dataset", spec |-> None, description |-> None],
    [cls |-> "Dataset", spec |-> Some(S1), description |-> Some("d1")],
    [cls |-> "PathDataset", spec |-> Some(S1), description |-> None],
    [cls |-> "BareDataset", spec |-> Some(S1), description |-> None] }

\* The field maps handed to remap; each comes with its inverse.
FieldMaps ==
  { [text |-> "sentence"], [sentence |-> "text"],
    [text |-> "label"], [label |-> "text"],
    [text |-> "label", label |-> "text"] }

Paths == {"/data/dev.tsv"}

\* The heap after the constructor call p on the example list xs.
InitRoot(p, xs) ==
  LET L == << <<>>, xs >>
  IN /\ lists = L
     /\ objs = << Dataset__init__(L, <<>>, p.cls, p.spec, 2, p.description, NoRef) >>
     /\ made = << [op |-> "init", self |-> NoRef] >>
     /\ last = [op |-> "init", ret |-> 1]

Init == \E p \in RootProfiles, xs \in ListsUpTo(MaxLen) : InitRoot(p, xs)

\* A call that returns a new dataset: the heaps it leaves, the call recorded.
Allocate(r, call) ==
  /\ lists' = r.lists
  /\ objs' = Append(objs, r.obj)
  /\ made' = Append(made, call)
  /\ last' = [op |-> call.op, ret |-> Len(objs) + 1]

Slice ==
  /\ Len(objs) < MaxObjs
  /\ \E self \in DOMAIN objs, a \in -1..MaxLen, b \in -1..MaxLen :
       Allocate(slice(lists, objs, self, a, b),
                [op |-> "slice", self |-> self, a |-> a, b |-> b])

Sample ==
  /\ Len(objs) < MaxObjs
  /\ \E self \in DOMAIN objs, n \in 0..(MaxLen + 1) :
       \E seed \in Seeds(Dataset__len__(lists, objs, self),
                         Min(n, Dataset__len__(lists, objs, self))) :
         Allocate(sample(lists, objs, self, n, seed),
                  [op |-> "sample", self |-> self, n |-> n, seed |-> seed])

Shuffle ==
  /\ Len(objs) < MaxObjs
  /\ \E self \in DOMAIN objs :
       \E seed \in Seeds(Dataset__len__(lists, objs, self),
                         Dataset__len__(lists, objs, self)) :
         Allocate(shuffle(lists, objs, self, seed),
                  [op |-> "shuffle", self |-> self, seed |-> seed])

Remap ==
  /\ Len(objs) < MaxObjs
  /\ \E self \in DOMAIN objs, field_map \in FieldMaps :
       Allocate(remap(lists, objs, self, field_map),
                [op |-> "remap", self |-> self, field_map |-> field_map])

IndexSingle ==
  /\ Len(objs) < MaxObjs
  /\ \E self \in DOMAIN objs, f \in IdFns :
       Allocate([lists |-> lists, obj |-> index_single(lists, objs, self, f)],
                [op |-> "index_single", self |-> self, id_fn |-> f])

CloneWithNewPath ==
  /\ \E self \in DOMAIN objs, path \in Paths :
       last' = [op |-> "clone_with_new_path", self |-> self, path |-> path,
                ret |-> clone_with_new_path(lists, objs, self, path)]
  /\ UNCHANGED <<lists, objs, made>>

Next == Slice \/ Sample \/ Shuffle \/ Remap \/ IndexSingle \/ CloneWithNewPath

Spec == Init /\ [][Next]_vars

(* ---------------------- the remap model: SpecRemap --------------------- *)

\* Schemas and examples whose field names overlap the names the field maps
\* rename from and to.
RemapSpecs ==
  { EmptyDict, S1, [text |-> "TextSegment"],
    [sentence |-> "TextSegment", label |-> "CategoryLabel"] }

\* The field maps of the remap model: those of the derivation model and a
\* chain text -> label -> sentence with its inverse.
RemapFieldMaps ==
  FieldMaps \cup { [text |-> "label", label |-> "sentence"],
                   [label |-> "text", sentence |-> "label"] }

RemapRecords ==
  { [text |-> "x"], [text |-> "x", label |-> "0"], [label |-> "1"],
    [sentence |-> "s", label |-> "0"] }

InitRemap ==
  \E sp \in RemapSpecs, xs \in UNION { [1..k -> RemapRecords] : k \in 0..MaxLen } :
    InitRoot([cls |-> "Dataset", spec |-> Some(sp), description |-> None], xs)

RemapAgain ==
  /\ Len(objs) <= MaxRemaps
  /\ \E self \in DOMAIN objs, field_map \in RemapFieldMaps :
       Allocate(remap(lists, objs, self, field_map),
                [op |-> "remap", self |-> self, field_map |-> field_map])

NextRemap == RemapAgain

SpecRemap == InitRemap /\ [][NextRemap]_vars

(* ------------------- the indexing model: SpecIndexed ------------------- *)

InitIndexed ==
  \E xs \in ListsUpTo(MaxIndexLen) :
    InitRoot([cls |-> "Dataset", spec |-> Some(S1), description |-> None], xs)

\* IndexedDataset.index_single(dataset, id_fn) on the root
IndexRoot ==
  /\ Len(objs) = 1
  /\ \E f \in IdFns :
       Allocate([lists |-> lists, obj |-> index_single(lists, objs, 1, f)],
                [op |-> "index_single", self |-> 1, id_fn |-> f])

\* IndexedDataset(spec, examples, id_fn=f) on a list of its own
IndexExamples ==
  /\ Len(objs) = 1
  /\ \E xs \in ListsUpTo(MaxIndexLen), f \in IdFns :
       LET L2 == Append(lists, xs)
       IN Allocate([lists |-> L2,
                    obj |-> IndexedDataset__init__(L2, objs, Some(S1), Len(L2), None,
                                                   NoRef, f)],
                   [op |-> "IndexedDataset", self |-> NoRef, id_fn |-> f])

NextIndexed == IndexRoot \/ IndexExamples

SpecIndexed == InitIndexed /\ [][NextIndexed]_vars

(* ----------------------------- NoneDataset ----------------------------- *)

\* The field descriptors of a model's input spec: a type and the required flag.
Descriptors == [type : {"TextSegment", "CategoryLabel"}, required : BOOLEAN]

InputFields == {"text", "label"}

\* model.spec().input: a dict from some of the field names to descriptors.
InputSpecs == UNION { [F -> Descriptors] : F \in SUBSET InputFields }

ModelNames == <<"A", "B", "C">>

\* The mappings of k named models, in every order their items can be visited:
\* sequences of (name, input spec) with distinct names.
ModelMappings(k) ==
  { m \in [1..k -> [name : { ModelNames[i] : i \in 1..k }, input : InputSpecs]] :
      \A i, j \in 1..k : i # j => m[i].name # m[j].name }

\* req_inputs without the filter on v.required.
req_inputs_unfiltered(input) == input

\* {k: v for (k, v) in model.spec().input.items() if v.required}
req_inputs(input) ==
  [k \in { f \in DOMAIN input : input[f].required } |-> input[k]]

\* has_conflicting_keys comparing with == in place of !=.
has_conflicting_keys_inverted(spec0, spec1) ==
  \E k \in DOMAIN spec0 : k \in DOMAIN spec1 /\ spec1[k] = spec0[k]

\* NoneDataset.has_conflicting_keys(spec0, spec1)
has_conflicting_keys(spec0, spec1) ==
  \E k \in DOMAIN spec0 : k \in DOMAIN spec1 /\ spec1[k] # spec0[k]

\* combined_spec.update(req_inputs)
dict_update(d, e) ==
  [k \in DOMAIN d \cup DOMAIN e |-> IF k \in DOMAIN e THEN e[k] ELSE d[k]]

\* What spec() ends with: the failed assertion, or the returned schema.
AssertionError == [raised |-> TRUE, value |-> EmptyDict]
Returned(v) == [raised |-> FALSE, value |-> v]

\* The loop of NoneDataset.spec() over models from position i on.
RECURSIVE spec_loop(_, _, _)
spec_loop(models, i, combined_spec) ==
  IF i > Len(models) THEN Returned(combined_spec)
  ELSE IF has_conflicting_keys(combined_spec, req_inputs(models[i].input))
       THEN AssertionError
       ELSE spec_loop(models, i + 1,
                      dict_update(combined_spec, req_inputs(models[i].input)))

\* NoneDataset.spec()
NoneDataset_spec(O, self) == spec_loop(O[self]._models, 1, EmptyDict)

\* NoneDataset.__init__(models): a list of its own, no call of the base
\* constructor.  examples is the reference of the new list.
NoneDataset__init__(examples, models) ==
  [ cls |-> "NoneDataset", _examples |-> examples, _models |-> models ]

(* --------------------- the schema model: SpecNone ---------------------- *)

InitNone ==
  /\ lists = << <<>> >>
  /\ objs = <<>>
  /\ made = <<>>
  /\ last = [op |-> "none", ret |-> NoRef]

NewNoneDataset ==
  /\ Len(objs) = 0
  /\ \E k \in 0..MaxModels : \E models \in ModelMappings(k) :
       Allocate([lists |-> Append(lists, <<>>),
                 obj |-> NoneDataset__init__(Len(lists) + 1, models)],
                [op |-> "NoneDataset", self |-> NoRef])

CallSpec ==
  /\ \E self \in DOMAIN objs :
       last' = [op |-> "spec", self |-> self, ret |-> NoneDataset_spec(objs, self)]
  /\ UNCHANGED <<lists, objs, made>>

NextNone == NewNoneDataset \/ CallSpec

SpecNone == InitNone /\ [][NextNone]_vars

(* ============================ properties ============================== *)

Range(f) == { f[x] : x \in DOMAIN f }

\* xs and ys hold the same items the same number of times.
IsPermutation(xs, ys) ==
  /\ Len(xs) = Len(ys)
  /\ \A r \in Range(xs) \cup Range(ys) :
       Cardinality({ i \in DOMAIN xs : xs[i] = r }) =
       Cardinality({ i \in DOMAIN ys : ys[i] = r })

\* The objects a call of one of the ops returned.
MadeBy(ops) == { k \in DOMAIN objs : made[k].op \in ops }

(* ---- C1 ---- *)

\* C1: d.slice[a:b] is a new Dataset whose records equal d.records[a:b] and
\* whose base is d, for all bounds a, b, those that select nothing included.
C1_SliceCorrect ==
  \A k \in MadeBy({"slice"}) :
    /\ k # made[k].self
    /\ objs[k]._base = made[k].self
    /\ Examples(lists, objs, k) =
         py_slice(Examples(lists, objs, made[k].self), made[k].a, made[k].b)

(* ---- C2 ---- *)

\* C2: d.sample(n, seed) has exactly min(n, len(d.records)) records, for
\* every n >= 0 and every seed.
C2_SampleSize ==
  \A k \in MadeBy({"sample"}) :
    Len(Examples(lists, objs, k)) =
      Min(made[k].n, Len(Examples(lists, objs, made[k].self)))

(* ---- C6 ---- *)

\* C6: for a Dataset d with a base (a base of zero records included),
\* d.clone_with_new_path(path) returns what base.clone_with_new_path(path)
\* returns; without a base it returns None.
C6_CloneDelegates ==
  (last.op = "clone_with_new_path" /\ ~overrides_clone_with_new_path(objs[last.self].cls))
    => last.ret = IF objs[last.self]._base # NoRef
                  THEN clone_with_new_path(lists, objs, objs[last.self]._base, last.path)
                  ELSE None

(* ---- C7 ---- *)

\* C7: a dataset d2 derived from d by slice, sample or shuffle has d's
\* schema, d's description and d's can_load_by_path.
C7_DerivationPreserves ==
  \A k \in MadeBy({"slice", "sample", "shuffle"}) :
    /\ Dataset_spec(objs, k) = Dataset_spec(objs, made[k].self)
    /\ Dataset_description(objs, k) = Dataset_description(objs, made[k].self)
    /\ objs[k].can_load_by_path = objs[made[k].self].can_load_by_path

(* ---- C9 ---- *)

\* What a caller can see of dataset i: its records in order, its schema, its
\* description, its base and its capability flag.
Observed(L, O, i) ==
  << L[O[i]._examples], O[i]._spec, Dataset_description(O, i), O[i]._base,
     O[i].can_load_by_path >>

C9_Step ==
  /\ \A i \in DOMAIN objs :
       /\ i \in DOMAIN objs'
       /\ Observed(lists', objs', i) = Observed(lists, objs, i)
  /\ (Len(objs') > Len(objs) /\ last'.op = "shuffle")
       => IsPermutation(Examples(lists', objs', Len(objs')),
                        Examples(lists, objs, made'[Len(objs')].self))

IsInjective(f) == \A x, y \in DOMAIN f : f[x] = f[y] => x = y

\* The inverse of an injective field map.
Inverse(f) == [t \in Range(f) |-> CHOOSE x \in DOMAIN f : f[x] = t]

\* The field names of dataset i: those of its schema and of its records.
FieldNames(L, O, i) ==
  DOMAIN O[i]._spec \cup UNION { DOMAIN L[O[i]._examples][n] : n \in DOMAIN L[O[i]._examples] }

\* Object k is d.remap(map).remap(inverse(map)) for a bijective map.
IsRoundTrip(k) ==
  /\ made[k].op = "remap"
  /\ made[made[k].self].op = "remap"
  /\ IsInjective(made[made[k].self].field_map)
  /\ made[k].field_map = Inverse(made[made[k].self].field_map)

\* The dataset d and the map of the round trip that ends in k.
RoundTripOf(k) == made[made[k].self].self
RoundTripMap(k) == made[made[k].self].field_map

SameContent(i, k) ==
  /\ Dataset_spec(objs, k) = Dataset_spec(objs, i)
  /\ Examples(lists, objs, k) = Examples(lists, objs, i)

\* A target name of the map that is not one of its source names.
FreshTargets(f) == Range(f) \ DOMAIN f

\* C8 as stated: for arbitrary field names of d and any bijective map,
\* d.remap(map).remap(inverse(map)) has d's schema and d's records.
C8_RoundTripAnyNames ==
  \A k \in DOMAIN objs : IsRoundTrip(k) => SameContent(RoundTripOf(k), k)

\* C8, amended: d.remap(map).remap(inverse(map)) has d's schema and d's
\* records when map is a bijection and no field name of d (in its schema or in
\* a record) is a target name of map that is not also a source name of map.
C8_RoundTrip ==
  \A k \in DOMAIN objs :
    ( /\ IsRoundTrip(k)
      /\ FieldNames(lists, objs, RoundTripOf(k)) \cap FreshTargets(RoundTripMap(k)) = {} )
    => SameContent(RoundTripOf(k), k)

\* A round trip that renamed a field of the schema and of a record of d and
\* came back to d's content.
C8_Witness ==
  \E k \in DOMAIN objs :
    /\ IsRoundTrip(k)
    /\ FieldNames(lists, objs, RoundTripOf(k)) \cap FreshTargets(RoundTripMap(k)) = {}
    /\ Len(Examples(lists, objs, RoundTripOf(k))) > 0
    /\ DOMAIN RoundTripMap(k) \cap DOMAIN Dataset_spec(objs, RoundTripOf(k)) # {}
    /\ DOMAIN RoundTripMap(k) \cap DOMAIN Examples(lists, objs, RoundTripOf(k))[1] # {}
    /\ Dataset_spec(objs, made[k].self) # Dataset_spec(objs, k)
    /\ SameContent(RoundTripOf(k), k)

(* ---- C3 ---- *)

Indexed == { k \in DOMAIN objs : objs[k].cls = "IndexedDataset" }

\* The identity function of k gives different records different ids.
HasInjectiveIdFn(k) ==
  \A r1, r2 \in Records \cup Range(Examples(lists, objs, k)) :
    id_fn(objs[k].id_fn, r1) = id_fn(objs[k].id_fn, r2) => r1 = r2

\* index[id_fn(ri)].data == ri for every record of k
EveryRecordIndexed(k) ==
  \A i \in DOMAIN Examples(lists, objs, k) :
    LET r == Examples(lists, objs, k)[i]
    IN /\ id_fn(objs[k].id_fn, r) \in DOMAIN objs[k]._index
       /\ objs[k]._index[id_fn(objs[k].id_fn, r)].data = r

\* C3 as stated: with an injective id function the index of a dataset of n
\* records, repeated records allowed, has exactly n entries and
\* index[id_fn(ri)].data == ri for every i.
C3_IndexHasOneEntryPerPosition ==
  \A k \in Indexed :
    HasInjectiveIdFn(k) =>
      /\ Cardinality(DOMAIN objs[k]._index) = Len(Examples(lists, objs, k))
      /\ EveryRecordIndexed(k)

\* C3, amended: with an injective id function the index has exactly as many
\* entries as there are distinct records among r1..rn (n when no record is
\* repeated), and index[id_fn(ri)].data == ri for every i.
C3_IndexComplete ==
  \A k \in Indexed :
    HasInjectiveIdFn(k) =>
      /\ Cardinality(DOMAIN objs[k]._index) = Cardinality(Range(Examples(lists, objs, k)))
      /\ EveryRecordIndexed(k)

\* An index built with an injective id function from three records, one of
\* them repeated.
C3_Witness ==
  \E k \in Indexed :
    /\ HasInjectiveIdFn(k)
    /\ Len(Examples(lists, objs, k)) = 3
    /\ Cardinality(Range(Examples(lists, objs, k))) = 2
    /\ Cardinality(DOMAIN objs[k]._index) = 2

(* ---- C10 ---- *)

\* Positions i < j of k hold different records with the same id.
Collide(k, i, j) ==
  LET xs == Examples(lists, objs, k)
  IN /\ i < j
     /\ xs[i] # xs[j]
     /\ id_fn(objs[k].id_fn, xs[i]) = id_fn(objs[k].id_fn, xs[j])

\* indexed_examples lists one IndexedInput per record, in the records' order.
IndexedInOrder(k) ==
  LET xs == Examples(lists, objs, k)
  IN /\ Len(objs[k]._indexed_examples) = Len(xs)
     /\ \A i \in DOMAIN xs :
          /\ objs[k]._indexed_examples[i].data = xs[i]
          /\ objs[k]._indexed_examples[i].id = id_fn(objs[k].id_fn, xs[i])

\* The last position of k whose record has the id of the record at i.
LastWithId(k, i) ==
  LET xs == Examples(lists, objs, k)
  IN CHOOSE j \in DOMAIN xs :
       /\ id_fn(objs[k].id_fn, xs[j]) = id_fn(objs[k].id_fn, xs[i])
       /\ \A h \in DOMAIN xs :
            id_fn(objs[k].id_fn, xs[h]) = id_fn(objs[k].id_fn, xs[i]) => h <= j

\* C10 as stated: whenever different records r1 at i and r2 at j > i have the
\* same id, the index entry of that id holds r2.
C10_LaterOfAnyPairWins ==
  \A k \in Indexed :
    /\ IndexedInOrder(k)
    /\ \A i, j \in DOMAIN Examples(lists, objs, k) :
         Collide(k, i, j) =>
           objs[k]._index[id_fn(objs[k].id_fn, Examples(lists, objs, k)[i])].data
             = Examples(lists, objs, k)[j]

\* C10, amended: whenever different records r1 at i and r2 at j > i have the
\* same id, the index entry of that id holds the record at the last position
\* that has this id (r2 when no later record has it), and indexed_examples
\* lists one IndexedInput per record in the original order.
C10_LastWriteWins ==
  \A k \in Indexed :
    /\ IndexedInOrder(k)
    /\ \A i, j \in DOMAIN Examples(lists, objs, k) :
         Collide(k, i, j) =>
           objs[k]._index[id_fn(objs[k].id_fn, Examples(lists, objs, k)[i])].data
             = Examples(lists, objs, k)[LastWithId(k, i)]

\* An index built from two different records with the same id, the later one
\* in the index.
C10_Witness ==
  \E k \in Indexed :
    /\ Len(Examples(lists, objs, k)) = 2
    /\ Collide(k, 1, 2)
    /\ objs[k]._index[id_fn(objs[k].id_fn, Examples(lists, objs, k)[1])].data
         = Examples(lists, objs, k)[2]

(* ---- C4 ---- *)

\* Two models give field f descriptors that differ.
Differ(models, f) ==
  \E i, j \in DOMAIN models :
    /\ f \in DOMAIN models[i].input
    /\ f \in DOMAIN models[j].input
    /\ models[i].input[f] # models[j].input[f]

\* Two models give field f descriptors that differ and are both required.
RequiredDiffer(models, f) ==
  \E i, j \in DOMAIN models :
    /\ f \in DOMAIN models[i].input
    /\ f \in DOMAIN models[j].input
    /\ models[i].input[f].required
    /\ models[j].input[f].required
    /\ models[i].input[f] # models[j].input[f]

\* C4 as stated: spec() fails whenever two producers define the same input
\* field with differing descriptors, whatever their required flags.
C4_AnyConflictFails ==
  (last.op = "spec" /\ \E f \in InputFields : Differ(objs[last.self]._models, f))
    => last.ret = AssertionError

\* C4, amended: spec() fails with a precondition failure and returns no
\* schema whenever two producers define the same input field with differing
\* descriptors that both have required = true.
C4_RequiredConflictFails ==
  (last.op = "spec" /\ \E f \in InputFields : RequiredDiffer(objs[last.self]._models, f))
    => last.ret = AssertionError

\* spec() was called on two producers that give a required field two types.
C4_Witness ==
  /\ last.op = "spec"
  /\ Len(objs[last.self]._models) = 2
  /\ RequiredDiffer(objs[last.self]._models, "text")
  /\ last.ret = AssertionError

(* ---- C5 ---- *)

\* The same mapping with its items visited in every other order.
Reorderings(models) ==
  { [i \in DOMAIN models |-> models[p[i]]] : p \in Permutations(DOMAIN models) }

\* The required input fields of all the models.
RequiredFields(models) ==
  { f \in InputFields :
      \E i \in DOMAIN models : f \in DOMAIN models[i].input /\ models[i].input[f].required }

\* Field f has descriptor d in the union of the models' required inputs.
InUnion(models, f, d) ==
  \E i \in DOMAIN models :
    f \in DOMAIN models[i].input /\ models[i].input[f].required /\ models[i].input[f] = d

\* C5: for every iteration order over the producers spec() has the same
\* outcome: it fails for every order, or it returns for every order the same
\* content, which is the union of the producers' required input fields.
C5_OrderIndependent ==
  last.op = "spec" =>
    /\ \A m \in Reorderings(objs[last.self]._models) :
         spec_loop(m, 1, EmptyDict) = last.ret
    /\ ~last.ret.raised =>
         /\ DOMAIN last.ret.value = RequiredFields(objs[last.self]._models)
         /\ \A f \in DOMAIN last.ret.value :
              InUnion(objs[last.self]._models, f, last.ret.value[f])

\* spec() returned the union of two producers' required fields, a field that
\* is not required left out.
C5_Witness ==
  /\ last.op = "spec"
  /\ ~last.ret.raised
  /\ Len(objs[last.self]._models) = 2
  /\ DOMAIN objs[last.self]._models[1].input = {"text", "label"}
  /\ objs[last.self]._models[1].input["text"].required
  /\ ~objs[last.self]._models[1].input["label"].required
  /\ DOMAIN objs[last.self]._models[2].input = {"text"}
  /\ objs[last.self]._models[2].input["text"].required
  /\ DOMAIN last.ret.value = {"text"}

====
